---- MODULE Spec2Model ----
(***************************************************************************)
(* TicketBooking: the booking ledger (an ERC-721 contract paid in the      *)
(* TIXCOIN ERC-20 token).  Every transaction is one atomic step; a failed  *)
(* require or a failing collaborator call reverts the whole transaction.   *)
(***************************************************************************)
EXTENDS Integers, Sequences, FiniteSets, TLC

\* ---------------------------------------------------------------- bounds
MaxEvents   == 2    \* createEvent succeeds at most this many times
MaxTickets  == 2    \* bookTicket succeeds at most this many times
MaxPrice    == 2    \* prices are 1..MaxPrice
MaxCapacity == 1    \* totalTickets are 0..MaxCapacity
MaxTime     == 2    \* block.timestamp is 0..MaxTime, deadlines lie strictly inside
InitBalance == 2    \* TIX each buyer starts with

\* -------------------------------------------------------------- accounts
owner  == "admin"                  \* msg.sender of the constructor
Buyers == {"u1", "u2"}
Users  == {owner} \cup Buyers      \* externally owned accounts (callers)
Ledger == "ledger"                 \* address(this)
NoOne  == "0x0"                    \* address(0)

EventIds  == 0..(MaxEvents + 1)    \* keys of the events mapping that are read
TicketIds == 0..(MaxTickets + 1)   \* keys of the tickets mapping that are read
Names     == {"Gig"}
Dates     == {1}
Prices    == 1..MaxPrice
Capacities == 0..MaxCapacity
Times     == 0..MaxTime
Deadlines == 1..(MaxTime - 1)

\* an unset slot of mapping(uint256 => Event) / mapping(uint256 => Ticket)
NoEvent  == [name |-> "", date |-> 0, price |-> 0, totalTickets |-> 0,
             soldTickets |-> 0, refundDeadline |-> 0]
NoTicket == [eventId |-> 0, owner |-> NoOne, isCancelled |-> FALSE]

VARIABLES
    eventIdCounter,   \* uint256 eventIdCounter
    ticketIdCounter,  \* uint256 ticketIdCounter
    events,           \* mapping(uint256 => Event)
    tickets,          \* mapping(uint256 => Ticket)
    ownerBookings,    \* mapping(address => uint256[]), the purchaser index
    nftOwners,        \* ERC721 holder of each token id (NoOne: not minted or burned)
    balances,         \* TIXCOIN balanceOf
    allowances,       \* TIXCOIN allowance(account, ledger)
    now,              \* block.timestamp
    withdrawn,        \* total TIX paid out by withdrawFunds so far
    refunded,         \* total TIX paid out by cancelBooking so far
    last,             \* the last transaction: operation and outcome
    client            \* per buyer, where its handleBookTicket stands

ledgerVars == <<eventIdCounter, ticketIdCounter, events, tickets, ownerBookings,
                nftOwners, balances>>
chainVars  == <<eventIdCounter, ticketIdCounter, events, tickets, ownerBookings,
                nftOwners, balances, allowances, withdrawn, refunded>>
vars == <<eventIdCounter, ticketIdCounter, events, tickets, ownerBookings,
          nftOwners, balances, allowances, now, withdrawn,
          refunded, last, client>>

Call(op, err) == [op |-> op, err |-> err]

\* a buyer whose client is not booking
Idle == [pc |-> "idle", eventId |-> 0, result |-> ""]

\* a transaction that reverts: no storage of any contract changes
Revert(op, err) ==
    /\ last' = Call(op, err)
    /\ UNCHANGED <<chainVars, now>>

\* ------------------------------------------------- TIXCOIN (payment token)
\* transfer(to, amount) from `from` is accepted iff the balance covers it
transferOk(from, amt) == balances[from] >= amt

\* transferFrom(from, ledger, amount) needs balance and allowance
transferFromOk(from, amt) == balances[from] >= amt /\ allowances[from] >= amt

Moved(from, to, amt) == [balances EXCEPT ![from] = @ - amt, ![to] = @ + amt]

\* approve(ledger, price) as the client sends it before bookTicket
approve(c, e) ==
    /\ e \in 1..eventIdCounter
    /\ allowances' = [allowances EXCEPT ![c] = events[e].price]
    /\ last' = Call("env", "ok")
    /\ UNCHANGED <<eventIdCounter, ticketIdCounter, events, tickets,
                   ownerBookings, nftOwners, balances, now,
                   withdrawn, refunded>>

\* ------------------------------------------------------------ the ledger
\* mutant: the modifier lets every caller through
onlyOwner_any(c) == TRUE

onlyOwner(c) == c = owner

\* mutant: the holder is taken from the purchase record, not from the registry
_ticketOwnerOf_purchaser(t) == tickets[t].owner

_ticketOwnerOf(t) == nftOwners[t]

\* mutant: at or after the deadline the refund is price * 2
refundAmount_double(e) ==
    IF now < events[e].refundDeadline
    THEN events[e].price
    ELSE events[e].price * 2

refundAmount(e) ==
    IF now < events[e].refundDeadline
    THEN events[e].price
    ELSE events[e].price \div 2

\* mutant: the record is stored before eventIdCounter is incremented
createEvent_storeFirst(c, name, date, price, total, deadline) ==
    IF ~onlyOwner(c)
    THEN Revert("createEvent", "Unauthorized")
    ELSE /\ eventIdCounter < MaxEvents
         /\ eventIdCounter' = eventIdCounter + 1
         /\ events' = [events EXCEPT ![eventIdCounter] =
                [name |-> name, date |-> date, price |-> price,
                 totalTickets |-> total, soldTickets |-> 0,
                 refundDeadline |-> deadline]]
         /\ last' = Call("createEvent", "ok")
         /\ UNCHANGED <<ticketIdCounter, tickets, ownerBookings, nftOwners,
                        balances, allowances, now, withdrawn,
                        refunded>>

createEvent(c, name, date, price, total, deadline) ==
    IF ~onlyOwner(c)
    THEN Revert("createEvent", "Unauthorized")
    ELSE /\ eventIdCounter < MaxEvents
         /\ eventIdCounter' = eventIdCounter + 1
         /\ events' = [events EXCEPT ![eventIdCounter + 1] =
                [name |-> name, date |-> date, price |-> price,
                 totalTickets |-> total, soldTickets |-> 0,
                 refundDeadline |-> deadline]]
         /\ last' = Call("createEvent", "ok")
         /\ UNCHANGED <<ticketIdCounter, tickets, ownerBookings, nftOwners,
                        balances, allowances, now, withdrawn,
                        refunded>>

\* mutant: require(balance >= 0)
withdrawFunds_zeroOk(c) ==
    IF ~onlyOwner(c)
    THEN Revert("withdrawFunds", "Unauthorized")
    ELSE LET balance == balances[Ledger] IN
         IF ~(balance >= 0)
         THEN Revert("withdrawFunds", "NothingToWithdraw")
         ELSE /\ balances' = Moved(Ledger, owner, balance)
              /\ withdrawn' = withdrawn + balance
              /\ last' = Call("withdrawFunds", "ok")
              /\ UNCHANGED <<eventIdCounter, ticketIdCounter, events, tickets,
                             ownerBookings, nftOwners, allowances,
                             now, refunded>>

withdrawFunds(c) ==
    IF ~onlyOwner(c)
    THEN Revert("withdrawFunds", "Unauthorized")
    ELSE LET balance == balances[Ledger] IN
         IF ~(balance > 0)
         THEN Revert("withdrawFunds", "NothingToWithdraw")
         ELSE /\ balances' = Moved(Ledger, owner, balance)
              /\ withdrawn' = withdrawn + balance
              /\ last' = Call("withdrawFunds", "ok")
              /\ UNCHANGED <<eventIdCounter, ticketIdCounter, events, tickets,
                             ownerBookings, nftOwners, allowances,
                             now, refunded>>

\* mutant: soldTickets <= totalTickets
bookTicketCheck_le(c, e) ==
    IF ~(e > 0 /\ e <= eventIdCounter) THEN "NotFound"
    ELSE IF ~(events[e].soldTickets <= events[e].totalTickets) THEN "SoldOut"
    ELSE IF ~transferFromOk(c, events[e].price) THEN "PaymentFailed"
    ELSE "ok"

\* mutant: soldTickets + 1 < totalTickets
bookTicketCheck_lastSeat(c, e) ==
    IF ~(e > 0 /\ e <= eventIdCounter) THEN "NotFound"
    ELSE IF ~(events[e].soldTickets + 1 < events[e].totalTickets) THEN "SoldOut"
    ELSE IF ~transferFromOk(c, events[e].price) THEN "PaymentFailed"
    ELSE "ok"

\* mutant: the result of transferFrom is not required to be true
bookTicketCheck_noRequire(c, e) ==
    IF ~(e > 0 /\ e <= eventIdCounter) THEN "NotFound"
    ELSE IF ~(events[e].soldTickets < events[e].totalTickets) THEN "SoldOut"
    ELSE "ok"

\* mutant: the sold-out require comes before the existence require
bookTicketCheck_soldOutFirst(c, e) ==
    IF ~(events[e].soldTickets < events[e].totalTickets) THEN "SoldOut"
    ELSE IF ~(e > 0 /\ e <= eventIdCounter) THEN "NotFound"
    ELSE IF ~transferFromOk(c, events[e].price) THEN "PaymentFailed"
    ELSE "ok"

\* the requires of bookTicket, in order; a pull the token rejects reverts
\* either inside the token or at require(success)
bookTicketCheck(c, e) ==
    IF ~(e > 0 /\ e <= eventIdCounter) THEN "NotFound"
    ELSE IF ~(events[e].soldTickets < events[e].totalTickets) THEN "SoldOut"
    ELSE IF ~transferFromOk(c, events[e].price) THEN "PaymentFailed"
    ELSE "ok"

\* mutant: soldTickets is incremented before the pull and a failed pull does
\* not undo it
bookTicket_noRollback(c, e) ==
    LET err    == bookTicketCheck(c, e)
        id     == ticketIdCounter + 1
    IN  IF err = "PaymentFailed"
        THEN /\ events' = [events EXCEPT ![e].soldTickets = @ + 1]
             /\ last' = Call("bookTicket", err)
             /\ UNCHANGED <<eventIdCounter, ticketIdCounter, tickets,
                            ownerBookings, nftOwners, balances, allowances,
                            now, withdrawn, refunded>>
        ELSE IF err # "ok"
        THEN Revert("bookTicket", err)
        ELSE /\ ticketIdCounter < MaxTickets
             /\ balances' = Moved(c, Ledger, events[e].price)
             /\ allowances' = [allowances EXCEPT ![c] = @ - events[e].price]
             /\ events' = [events EXCEPT ![e].soldTickets = @ + 1]
             /\ ticketIdCounter' = id
             /\ tickets' = [tickets EXCEPT ![id] =
                    [eventId |-> e, owner |-> c, isCancelled |-> FALSE]]
             /\ ownerBookings' = [ownerBookings EXCEPT ![c] = Append(@, id)]
             /\ nftOwners' = [nftOwners EXCEPT ![id] = c]
             /\ last' = Call("bookTicket", "ok")
             /\ UNCHANGED <<eventIdCounter, now, withdrawn, refunded>>

\* mutant: the purchaser index is pushed before ticketIdCounter is incremented
bookTicket_staleId(c, e) ==
    LET err    == bookTicketCheck(c, e)
        id     == ticketIdCounter + 1
        pulled == IF transferFromOk(c, events[e].price)
                  THEN events[e].price ELSE 0
    IN  IF err # "ok"
        THEN Revert("bookTicket", err)
        ELSE /\ ticketIdCounter < MaxTickets
             /\ balances' = Moved(c, Ledger, pulled)
             /\ allowances' = [allowances EXCEPT ![c] = @ - pulled]
             /\ events' = [events EXCEPT ![e].soldTickets = @ + 1]
             /\ ticketIdCounter' = id
             /\ tickets' = [tickets EXCEPT ![id] =
                    [eventId |-> e, owner |-> c, isCancelled |-> FALSE]]
             /\ ownerBookings' = [ownerBookings EXCEPT
                                    ![c] = Append(@, ticketIdCounter)]
             /\ nftOwners' = [nftOwners EXCEPT ![id] = c]
             /\ last' = Call("bookTicket", "ok")
             /\ UNCHANGED <<eventIdCounter, now, withdrawn, refunded>>

\* mutant: the event is read into memory, so soldTickets++ is not stored
bookTicket_noSold(c, e) ==
    LET err    == bookTicketCheck(c, e)
        id     == ticketIdCounter + 1
        pulled == IF transferFromOk(c, events[e].price)
                  THEN events[e].price ELSE 0
    IN  IF err # "ok"
        THEN Revert("bookTicket", err)
        ELSE /\ ticketIdCounter < MaxTickets
             /\ balances' = Moved(c, Ledger, pulled)
             /\ allowances' = [allowances EXCEPT ![c] = @ - pulled]
             /\ ticketIdCounter' = id
             /\ tickets' = [tickets EXCEPT ![id] =
                    [eventId |-> e, owner |-> c, isCancelled |-> FALSE]]
             /\ ownerBookings' = [ownerBookings EXCEPT ![c] = Append(@, id)]
             /\ nftOwners' = [nftOwners EXCEPT ![id] = c]
             /\ last' = Call("bookTicket", "ok")
             /\ UNCHANGED <<eventIdCounter, events, now, withdrawn, refunded>>

bookTicket(c, e) ==
    LET err    == bookTicketCheck(c, e)
        id     == ticketIdCounter + 1
        pulled == IF transferFromOk(c, events[e].price)
                  THEN events[e].price ELSE 0
    IN  IF err # "ok"
        THEN Revert("bookTicket", err)
        ELSE /\ ticketIdCounter < MaxTickets
             /\ balances' = Moved(c, Ledger, pulled)
             /\ allowances' = [allowances EXCEPT ![c] = @ - pulled]
             /\ events' = [events EXCEPT ![e].soldTickets = @ + 1]
             /\ ticketIdCounter' = id
             /\ tickets' = [tickets EXCEPT ![id] =
                    [eventId |-> e, owner |-> c, isCancelled |-> FALSE]]
             /\ ownerBookings' = [ownerBookings EXCEPT ![c] = Append(@, id)]
             /\ nftOwners' = [nftOwners EXCEPT ![id] = c]
             /\ last' = Call("bookTicket", "ok")
             /\ UNCHANGED <<eventIdCounter, now, withdrawn, refunded>>

cancelBookingCheck(c, t) ==
    IF _ticketOwnerOf(t) # c THEN "NotOwner"
    ELSE IF tickets[t].isCancelled THEN "AlreadyCancelled"
    ELSE "ok"

\* mutant: the ticket record is deleted (reset to its default) on cancellation
cancelEffects_delete(c, t, paid) ==
    /\ balances' = Moved(Ledger, c, paid)
    /\ refunded' = refunded + paid
    /\ tickets' = [tickets EXCEPT ![t] = [NoTicket EXCEPT !.isCancelled = TRUE]]
    /\ nftOwners' = [nftOwners EXCEPT ![t] = NoOne]
    /\ last' = Call("cancelBooking", "ok")
    /\ UNCHANGED <<eventIdCounter, ticketIdCounter, events, ownerBookings,
                   allowances, now, withdrawn>>

\* mutant: a cancellation returns the seat to the inventory
cancelEffects_restock(c, t, paid) ==
    /\ balances' = Moved(Ledger, c, paid)
    /\ refunded' = refunded + paid
    /\ tickets' = [tickets EXCEPT ![t].isCancelled = TRUE]
    /\ nftOwners' = [nftOwners EXCEPT ![t] = NoOne]
    /\ events' = [events EXCEPT ![tickets[t].eventId].soldTickets = @ - 1]
    /\ last' = Call("cancelBooking", "ok")
    /\ UNCHANGED <<eventIdCounter, ticketIdCounter, ownerBookings,
                   allowances, now, withdrawn>>

\* mutant: a cancellation removes the id from the purchaser index
cancelEffects_unlist(c, t, paid) ==
    /\ balances' = Moved(Ledger, c, paid)
    /\ refunded' = refunded + paid
    /\ tickets' = [tickets EXCEPT ![t].isCancelled = TRUE]
    /\ nftOwners' = [nftOwners EXCEPT ![t] = NoOne]
    /\ ownerBookings' = [ownerBookings EXCEPT
            ![tickets[t].owner] = SelectSeq(@, LAMBDA x : x # t)]
    /\ last' = Call("cancelBooking", "ok")
    /\ UNCHANGED <<eventIdCounter, ticketIdCounter, events,
                   allowances, now, withdrawn>>

\* mutant: the refund goes to the recorded purchaser
cancelEffects_payPurchaser(c, t, paid) ==
    /\ balances' = Moved(Ledger, tickets[t].owner, paid)
    /\ refunded' = refunded + paid
    /\ tickets' = [tickets EXCEPT ![t].isCancelled = TRUE]
    /\ nftOwners' = [nftOwners EXCEPT ![t] = NoOne]
    /\ last' = Call("cancelBooking", "ok")
    /\ UNCHANGED <<eventIdCounter, ticketIdCounter, events, ownerBookings,
                   allowances, now, withdrawn>>

\* mutant: the asset is not burned
cancelEffects_noBurn(c, t, paid) ==
    /\ balances' = Moved(Ledger, c, paid)
    /\ refunded' = refunded + paid
    /\ tickets' = [tickets EXCEPT ![t].isCancelled = TRUE]
    /\ last' = Call("cancelBooking", "ok")
    /\ UNCHANGED <<eventIdCounter, ticketIdCounter, events, ownerBookings,
                   nftOwners, allowances, now, withdrawn>>

\* what cancelBooking does once its requires have passed and the token has
\* moved `paid` to the caller
cancelEffects(c, t, paid) ==
    /\ balances' = Moved(Ledger, c, paid)
    /\ refunded' = refunded + paid
    /\ tickets' = [tickets EXCEPT ![t].isCancelled = TRUE]
    /\ nftOwners' = [nftOwners EXCEPT ![t] = NoOne]
    /\ last' = Call("cancelBooking", "ok")
    /\ UNCHANGED <<eventIdCounter, ticketIdCounter, events, ownerBookings,
                   allowances, now, withdrawn>>

\* A push the token rejects either reverts inside the token, which reverts
\* the cancellation, or returns false, which cancelBooking does not look at.
cancelBooking(c, t) ==
    LET err == cancelBookingCheck(c, t)
        amt == refundAmount(tickets[t].eventId)
    IN  IF err # "ok"
        THEN Revert("cancelBooking", err)
        ELSE IF amt > 0
        THEN IF transferOk(Ledger, amt)
             THEN cancelEffects(c, t, amt)
             ELSE \/ Revert("cancelBooking", "PaymentFailed")
                  \/ cancelEffects(c, t, 0)
        ELSE cancelEffects(c, t, 0)

getEventDetails(e) == events[e]

getUserTickets(a) == ownerBookings[a]

\* the tickets the client lists for an account, each shown as not cancelled:
\* the ids of getUserTickets for which ownerOf does not fail (none is fetched
\* for the administrator)
fetchData(a) ==
    IF a = owner THEN <<>>
    ELSE SelectSeq(getUserTickets(a), LAMBDA t : nftOwners[t] # NoOne)

\* ERC721.transferFrom by the current holder to another account
transferAsset(c, to, t) ==
    /\ t \in 1..ticketIdCounter
    /\ nftOwners[t] = c
    /\ to # c
    /\ nftOwners' = [nftOwners EXCEPT ![t] = to]
    /\ last' = Call("env", "ok")
    /\ UNCHANGED <<eventIdCounter, ticketIdCounter, events, tickets,
                   ownerBookings, balances, allowances, now,
                   withdrawn, refunded>>

\* a later block
Tick ==
    /\ now < MaxTime
    /\ now' = now + 1
    /\ last' = Call("env", "ok")
    /\ UNCHANGED chainVars

Init ==
    /\ eventIdCounter = 0
    /\ ticketIdCounter = 0
    /\ events = [e \in EventIds |-> NoEvent]
    /\ tickets = [t \in TicketIds |-> NoTicket]
    /\ ownerBookings = [u \in Users |-> <<>>]
    /\ nftOwners = [t \in TicketIds |-> NoOne]
    /\ balances = [a \in Users \cup {Ledger} |->
                        IF a \in Buyers THEN InitBalance ELSE 0]
    /\ allowances = [u \in Users |-> 0]
    /\ now \in Times
    /\ withdrawn = 0
    /\ refunded = 0
    /\ last = Call("constructor", "ok")
    /\ client = [b \in Buyers |-> Idle]

\* any account sends any transaction; no client flow is under way
Next ==
    \/ \E c \in Users, n \in Names, d \in Dates, p \in Prices,
          k \in Capacities, dl \in Deadlines :
             createEvent(c, n, d, p, k, dl) /\ UNCHANGED client
    \/ \E c \in Users : withdrawFunds(c) /\ UNCHANGED client
    \/ \E c \in Users, e \in EventIds : bookTicket(c, e) /\ UNCHANGED client
    \/ \E c \in Users, t \in TicketIds : cancelBooking(c, t) /\ UNCHANGED client
    \/ \E c \in Buyers, e \in EventIds : approve(c, e) /\ UNCHANGED client
    \/ \E c \in Users, to \in Buyers, t \in TicketIds :
          transferAsset(c, to, t) /\ UNCHANGED client
    \/ Tick /\ UNCHANGED client

Spec == Init /\ [][Next]_vars

\* ------------------------------------------- the client's booking flow
\* handleBookTicket(eventId, price): approve, wait, bookTicket, wait; the
\* two transactions of one buyer are separate steps, and what fails lands in
\* the catch
handleBookTicket_approve(b) ==
    /\ client[b].pc = "approve"
    /\ approve(b, client[b].eventId)
    /\ client' = [client EXCEPT ![b].pc = "book"]

handleBookTicket_book(b) ==
    /\ client[b].pc = "book"
    /\ bookTicket(b, client[b].eventId)
    /\ client' = [client EXCEPT ![b].pc = "done", ![b].result = last'.err]

\* the records createEvent can have stored, none sold yet
EventRecs == [name : Names, date : Dates, price : Prices,
              totalTickets : Capacities, soldTickets : {0},
              refundDeadline : Deadlines]

\* The administrator has created the events and nothing is sold; both buyers
\* have pressed "book" for the same event, which has one seat.
InitRace ==
    /\ eventIdCounter \in 1..MaxEvents
    /\ ticketIdCounter = 0
    /\ events \in [EventIds -> EventRecs \cup {NoEvent}]
    /\ \A e \in EventIds : events[e] # NoEvent <=> e \in 1..eventIdCounter
    /\ tickets = [t \in TicketIds |-> NoTicket]
    /\ ownerBookings = [u \in Users |-> <<>>]
    /\ nftOwners = [t \in TicketIds |-> NoOne]
    /\ balances = [a \in Users \cup {Ledger} |->
                        IF a \in Buyers THEN InitBalance ELSE 0]
    /\ allowances = [u \in Users |-> 0]
    /\ now \in Times
    /\ withdrawn = 0
    /\ refunded = 0
    /\ last = Call("createEvent", "ok")
    /\ \E e \in 1..eventIdCounter :
          /\ events[e].totalTickets = 1
          /\ client = [b \in Buyers |->
                          [pc |-> "approve", eventId |-> e, result |-> ""]]

\* only the four steps of the two flows
NextRace ==
    \/ \E b \in Buyers : handleBookTicket_approve(b)
    \/ \E b \in Buyers : handleBookTicket_book(b)

SpecRace == InitRace /\ [][NextRace]_vars

\* ------------------------------------------------------------ properties
Existing == 1..eventIdCounter
Issued   == 1..ticketIdCounter

\* the price paid for ticket t
PriceOf(t) == events[tickets[t].eventId].price

RECURSIVE SumOver(_, _)
SumOver(S, f) ==
    IF S = {} THEN 0
    ELSE LET x == CHOOSE y \in S : TRUE IN f[x] + SumOver(S \ {x}, f)

\* C1: every existing event has soldTickets <= totalTickets, in every
\* reachable state.
C1_NeverOversold ==
    \A e \in Existing : events[e].soldTickets <= events[e].totalTickets

\* a full event one of whose tickets has just been cancelled
C1_Witness ==
    /\ last = Call("cancelBooking", "ok")
    /\ \E t \in Issued :
          /\ tickets[t].isCancelled
          /\ events[tickets[t].eventId].soldTickets
                = events[tickets[t].eventId].totalTickets

\* C2: on an existing event, a booking of the last seat by a caller whose
\* pull succeeds succeeds, and a booking when soldTickets = totalTickets
\* fails with SoldOut for every caller and changes no ledger state.  (For
\* the second part: a step is either a SoldOut failure that changes nothing,
\* or it is not a booking of a full event.)
C2_LastSeatThenSoldOut ==
    [][last'.op = "bookTicket" =>
       \A e \in Existing, c \in Users :
          /\ ( /\ events[e].soldTickets = events[e].totalTickets - 1
               /\ transferFromOk(c, events[e].price)
               /\ bookTicket(c, e) )
             => /\ last' = Call("bookTicket", "ok")
                /\ events'[e].soldTickets = events[e].totalTickets
          /\ \/ /\ last' = Call("bookTicket", "SoldOut")
                /\ UNCHANGED ledgerVars
             \/ ~ ( /\ events[e].soldTickets = events[e].totalTickets
                    /\ bookTicket(c, e) )
      ]_vars

\* the last seat of an event was sold and a later booking failed with SoldOut
C2_Witness ==
    /\ last = Call("bookTicket", "SoldOut")
    /\ \E e \in Existing :
          /\ events[e].totalTickets >= 1
          /\ events[e].soldTickets = events[e].totalTickets

\* C3: a booking of an existing, not sold out event whose pull the token
\* refuses fails with PaymentFailed and changes nothing.
C3_PaymentFailedChangesNothing ==
    [][last'.op = "bookTicket" =>
       \A e \in Existing, c \in Users :
          ( /\ events[e].soldTickets < events[e].totalTickets
            /\ ~transferFromOk(c, events[e].price)
            /\ bookTicket(c, e) )
          => /\ last' = Call("bookTicket", "PaymentFailed")
             /\ UNCHANGED chainVars
      ]_vars

\* a booking failed with PaymentFailed although the caller had approved the
\* price (the balance was short), and one although the balance was there
C3_Witness ==
    /\ last = Call("bookTicket", "PaymentFailed")
    /\ \E c \in Buyers, e \in Existing :
          /\ events[e].soldTickets < events[e].totalTickets
          /\ allowances[c] >= events[e].price
          /\ balances[c] < events[e].price

\* C4: a successful cancellation of a ticket of event e moves exactly
\* price(e) from custody to the caller before refundDeadline(e) and exactly
\* floor(price(e) / 2) at or after it.
C4_RefundIsPriceOrHalf ==
    [][last' = Call("cancelBooking", "ok") =>
       \A t \in Issued, c \in Users :
          cancelBooking(c, t) =>
             LET p == PriceOf(t)
                 due == IF now < events[tickets[t].eventId].refundDeadline
                        THEN p ELSE p \div 2
             IN  /\ balances'[c] = balances[c] + due
                 /\ balances'[Ledger] = balances[Ledger] - due
      ]_vars

\* C5: cancelling a ticket that is already cancelled fails with
\* AlreadyCancelled and pays nothing.
C5_SecondCancelIsAlreadyCancelled ==
    [][last'.op = "cancelBooking" =>
       \A t \in Issued, c \in Users :
          (tickets[t].isCancelled /\ cancelBooking(c, t))
          => /\ last' = Call("cancelBooking", "AlreadyCancelled")
             /\ UNCHANGED chainVars
      ]_vars

\* C6: cancelBooking by anyone who is not the current holder of the asset
\* (ticket 0, a never issued id and a burned asset included) fails with
\* NotOwner and changes nothing; a cancellation pays only the account that
\* held the asset when it was called.  (A step is either a NotOwner failure
\* that changes nothing, or no call by a non-holder is that step.)
C6_OnlyHolderCancels ==
    [][last'.op = "cancelBooking" =>
       /\ \/ /\ last' = Call("cancelBooking", "NotOwner")
             /\ UNCHANGED chainVars
          \/ ~ \E t \in TicketIds, c \in Users :
                  nftOwners[t] # c /\ cancelBooking(c, t)
       /\ \A a \in Users :
             balances'[a] > balances[a]
             => \E t \in Issued : nftOwners[t] = a /\ nftOwners'[t] = NoOne
      ]_vars

\* a ticket whose asset was transferred away from its purchaser is live and
\* a cancellation has just failed with NotOwner
C6_Witness ==
    /\ last = Call("cancelBooking", "NotOwner")
    /\ \E t \in Issued : nftOwners[t] \notin {NoOne, tickets[t].owner}

\* C7: createEvent and withdrawFunds by anyone but the administrator fail
\* with Unauthorized and change nothing; an event is only ever created by the
\* administrator, and custody only ever decreases by a withdrawal to the
\* administrator or by a refund to the holder who cancels.  (A step is either
\* an Unauthorized failure that changes nothing, or no call by another
\* account is that step.)
C7_AdminOnly ==
    [][/\ last'.op = "createEvent" =>
            \/ /\ last' = Call("createEvent", "Unauthorized")
               /\ UNCHANGED chainVars
            \/ ~ \E c \in Users \ {owner}, n \in Names, d \in Dates,
                    p \in Prices, k \in Capacities, dl \in Deadlines :
                       createEvent(c, n, d, p, k, dl)
       /\ last'.op = "withdrawFunds" =>
            \/ /\ last' = Call("withdrawFunds", "Unauthorized")
               /\ UNCHANGED chainVars
            \/ ~ \E c \in Users \ {owner} : withdrawFunds(c)
       /\ (eventIdCounter' # eventIdCounter \/ events' # events) =>
            \/ \E n \in Names, d \in Dates, p \in Prices, k \in Capacities,
                  dl \in Deadlines : createEvent(owner, n, d, p, k, dl)
            \/ /\ last' = Call("bookTicket", "ok")
               /\ eventIdCounter' = eventIdCounter
       /\ balances'[Ledger] < balances[Ledger] =>
            LET out == balances[Ledger] - balances'[Ledger] IN
            \/ /\ withdrawFunds(owner)
               /\ balances'[owner] = balances[owner] + out
            \/ \E t \in Issued, c \in Users :
                  /\ nftOwners[t] = c
                  /\ cancelBooking(c, t)
                  /\ balances'[c] = balances[c] + out
      ]_vars

\* with an event created and funds in custody, a withdrawal by a buyer failed
C7_Witness ==
    /\ last = Call("withdrawFunds", "Unauthorized")
    /\ eventIdCounter >= 1
    /\ balances[Ledger] > 0

\* C8: withdrawFunds by the administrator fails with NothingToWithdraw and
\* changes nothing when custody is 0; when custody is B > 0 the
\* administrator's balance grows by B, custody becomes 0, and no event,
\* ticket, counter, purchaser index or asset holder changes.
C8_WithdrawAll ==
    [][(last'.op = "withdrawFunds" /\ withdrawFunds(owner)) =>
          IF balances[Ledger] = 0
          THEN /\ last' = Call("withdrawFunds", "NothingToWithdraw")
               /\ UNCHANGED chainVars
          ELSE /\ last' = Call("withdrawFunds", "ok")
               /\ balances'[owner] = balances[owner] + balances[Ledger]
               /\ balances'[Ledger] = 0
               /\ \A b \in Buyers : balances'[b] = balances[b]
               /\ UNCHANGED <<eventIdCounter, ticketIdCounter, events,
                              tickets, ownerBookings, nftOwners>>
      ]_vars

\* the administrator has withdrawn everything and tickets are still live
C8_Witness ==
    /\ last = Call("withdrawFunds", "ok")
    /\ balances[Ledger] = 0
    /\ balances[owner] > 0
    /\ \E t \in Issued : nftOwners[t] # NoOne

\* C9 as stated: custody is the sum of the prices of the tickets that are
\* not cancelled, minus what the administrator has withdrawn.
C9_CustodyIsUnrefundedPrices ==
    balances[Ledger]
        = SumOver({t \in Issued : ~tickets[t].isCancelled},
                  [t \in Issued |-> PriceOf(t)]) - withdrawn

\* C9 amended: custody is the sum of the prices of all tickets sold, minus
\* the refunds paid out by cancellations, minus what the administrator has
\* withdrawn.
C9_CustodyIsPaidMinusRefundsAndWithdrawals ==
    balances[Ledger]
        = SumOver(Issued, [t \in Issued |-> PriceOf(t)]) - refunded - withdrawn

\* a ticket was cancelled for half its price, another is live, and the
\* administrator has withdrawn
C9_Witness ==
    /\ withdrawn > 0
    /\ refunded > 0
    /\ balances[Ledger] > 0
    /\ \E t \in Issued : tickets[t].isCancelled

\* C10: when the holder of a live ticket with a refund > 0 cancels and the
\* token rejects the refund push, the cancellation fails and nothing changes.
C10_RejectedPushFailsCancellation ==
    [][last'.op = "cancelBooking" =>
       \A t \in Issued, c \in Users :
          ( /\ nftOwners[t] = c
            /\ ~tickets[t].isCancelled
            /\ refundAmount(tickets[t].eventId) > 0
            /\ ~transferOk(Ledger, refundAmount(tickets[t].eventId))
            /\ cancelBooking(c, t) )
          => /\ last' = Call("cancelBooking", "PaymentFailed")
             /\ UNCHANGED chainVars
      ]_vars

\* C11: a ticket goes Active -> Cancelled and never back: once its cancelled
\* flag is true it stays true and its asset never has a holder again; the
\* event id and the purchaser recorded at its booking never change, also not
\* by a cancellation or a transfer of the asset.
C11_OneWayLifecycle ==
    [][\A t \in Issued :
          /\ tickets[t].isCancelled
             => /\ tickets'[t].isCancelled
                /\ nftOwners[t] = NoOne
                /\ nftOwners'[t] = NoOne
          /\ tickets'[t].eventId = tickets[t].eventId
          /\ tickets'[t].owner = tickets[t].owner
      ]_vars

\* ticket 1 is cancelled, and ticket 2, booked after that, has been
\* transferred away from its purchaser
C11_Witness ==
    /\ ticketIdCounter = 2
    /\ tickets[1].isCancelled
    /\ refunded > 0
    /\ nftOwners[2] \notin {NoOne, tickets[2].owner}

\* C12: a successful bookTicket(e) by c changes the ledger state in exactly
\* this way: soldTickets(e) grows by 1, ticketIdCounter grows by 1 to t,
\* tickets[t] = (e, c, not cancelled), t is appended at the end of c's
\* purchaser index, asset t is minted to c, and price(e) moves from c to
\* custody; nothing else of the ledger state changes.
C12_BookingEffects ==
    [][last' = Call("bookTicket", "ok") =>
       \A e \in Existing, c \in Users :
          bookTicket(c, e) =>
             LET t == ticketIdCounter + 1 IN
             /\ events' = [events EXCEPT ![e].soldTickets = events[e].soldTickets + 1]
             /\ ticketIdCounter' = t
             /\ tickets' = [tickets EXCEPT ![t] =
                    [eventId |-> e, owner |-> c, isCancelled |-> FALSE]]
             /\ ownerBookings' = [ownerBookings EXCEPT ![c] = ownerBookings[c] \o <<t>>]
             /\ nftOwners' = [nftOwners EXCEPT ![t] = c]
             /\ balances' = [balances EXCEPT
                    ![c] = balances[c] - events[e].price,
                    ![Ledger] = balances[Ledger] + events[e].price]
             /\ eventIdCounter' = eventIdCounter
      ]_vars

\* one buyer has just booked a second ticket
C12_Witness ==
    /\ last = Call("bookTicket", "ok")
    /\ \E c \in Users : ownerBookings[c] = <<1, 2>>

\* C13: the record of an existing event changes only by soldTickets growing
\* by 1 in a successful bookTicket for that event: name, date, price,
\* totalTickets and refundDeadline never change, cancelBooking, withdrawFunds
\* and createEvent leave it as it is, soldTickets never decreases, and an
\* event with soldTickets = totalTickets rejects every booking with SoldOut
\* and so stays full for ever.
C13_EventsChangeOnlyBySales ==
    [][\A e \in Existing :
          /\ \/ events'[e] = events[e]
             \/ /\ last' = Call("bookTicket", "ok")
                /\ \E c \in Users : bookTicket(c, e)
                /\ events'[e] = [events[e] EXCEPT
                                    !.soldTickets = events[e].soldTickets + 1]
          /\ events[e].soldTickets = events[e].totalTickets
             => /\ events'[e] = events[e]
                /\ \A c \in Users : bookTicketCheck(c, e) = "SoldOut"
      ]_vars

\* event 1 is full, its ticket was cancelled, and event 2 was created after
C13_Witness ==
    /\ last = Call("createEvent", "ok")
    /\ eventIdCounter = 2
    /\ events[1].totalTickets = 1
    /\ events[1].soldTickets = 1
    /\ tickets[1].isCancelled

IsPrefix(s, t) == Len(s) <= Len(t) /\ SubSeq(t, 1, Len(s)) = s

Occurrences(s, x) == Cardinality({i \in DOMAIN s : s[i] = x})

\* C14: the purchaser index is append-only: the list getUserTickets(a) of a
\* state is a prefix of the list of every later state; every issued ticket
\* id is listed exactly once, in the list of its recorded purchaser and in no
\* other, whether or not it was cancelled or its asset transferred.
C14_IndexAppendOnly ==
    /\ [](\A a \in Users :
             /\ \A i \in DOMAIN getUserTickets(a) :
                   getUserTickets(a)[i] \in Issued
             /\ \A t \in Issued :
                   Occurrences(getUserTickets(a), t)
                      = IF tickets[t].owner = a THEN 1 ELSE 0)
    /\ [][\A a \in Users : IsPrefix(getUserTickets(a), getUserTickets(a)')]_vars

\* a buyer's list of two tickets still holds the one that was cancelled
C14_Witness ==
    \E a \in Users :
       /\ Len(getUserTickets(a)) = 2
       /\ tickets[getUserTickets(a)[1]].isCancelled
       /\ ~tickets[getUserTickets(a)[2]].isCancelled

\* C15: createEvent by the administrator succeeds whatever its arguments,
\* increases eventIdCounter by exactly 1 and stores the given fields with
\* soldTickets = 0 at the new id, leaving every other record as it is; so
\* the ids holding a stored record are exactly 1..eventIdCounter, never id
\* 0, and two calls with the same arguments make two events.
C15_CreateEvent ==
    /\ [](\A e \in EventIds :
             getEventDetails(e) # NoEvent <=> e \in Existing)
    /\ [][last'.op = "createEvent" =>
          \A n \in Names, d \in Dates, p \in Prices, k \in Capacities,
             dl \in Deadlines :
                createEvent(owner, n, d, p, k, dl)
                => /\ last' = Call("createEvent", "ok")
                   /\ eventIdCounter' = eventIdCounter + 1
                   /\ events' = [events EXCEPT ![eventIdCounter + 1] =
                          [name |-> n, date |-> d, price |-> p,
                           totalTickets |-> k, soldTickets |-> 0,
                           refundDeadline |-> dl]]
         ]_vars

\* two events made by two calls with the same arguments, the first already
\* sold out when the second was created
C15_Witness ==
    /\ last = Call("createEvent", "ok")
    /\ eventIdCounter = 2
    /\ events[1].soldTickets = 1
    /\ events[2] = [events[1] EXCEPT !.soldTickets = 0]

\* C16: bookTicket(e) with e = 0 or e > eventIdCounter fails with NotFound,
\* whatever the caller's balance and allowance, and changes nothing: no pull
\* is made (no balance and no allowance changes).  (A step is either a
\* NotFound failure that changes nothing, or no booking of a nonexistent
\* event is that step.)
C16_NotFoundFirst ==
    [][last'.op = "bookTicket" =>
       \/ /\ last' = Call("bookTicket", "NotFound")
          /\ UNCHANGED chainVars
       \/ ~ \E c \in Users, e \in EventIds \ Existing : bookTicket(c, e)
      ]_vars

\* a booking failed with NotFound while an event with a free seat exists and
\* a buyer holds the allowance and the balance to pay for it
C16_Witness ==
    /\ last = Call("bookTicket", "NotFound")
    /\ \E e \in Existing, c \in Buyers :
          /\ events[e].soldTickets < events[e].totalTickets
          /\ transferFromOk(c, events[e].price)

\* C17 as stated: when the asset of a live ticket bought by A is held by
\* B # A, cancelBooking by A fails with NotOwner, cancelBooking by B
\* succeeds and pays B the refund computed from the event's price, and the
\* recorded purchaser stays A.
C17_RightsFollowAsset ==
    [][last'.op = "cancelBooking" =>
       \A t \in Issued, c \in Users :
          ( /\ nftOwners[t] \notin {NoOne, tickets[t].owner}
            /\ ~tickets[t].isCancelled
            /\ c \in {nftOwners[t], tickets[t].owner}
            /\ cancelBooking(c, t) )
          => /\ tickets'[t].owner = tickets[t].owner
             /\ c = tickets[t].owner
                => /\ last' = Call("cancelBooking", "NotOwner")
                   /\ UNCHANGED chainVars
             /\ c = nftOwners[t]
                => LET amt == refundAmount(tickets[t].eventId) IN
                   /\ last' = Call("cancelBooking", "ok")
                   /\ balances'[c] = balances[c] + amt
                   /\ balances'[Ledger] = balances[Ledger] - amt
                   /\ tickets'[t].isCancelled
                   /\ nftOwners'[t] = NoOne
      ]_vars

\* C17 amended: the same, with B's cancellation succeeding and paying the
\* refund whenever ledger custody covers the refund.
C17_RightsFollowAssetWhenFunded ==
    [][last'.op = "cancelBooking" =>
       \A t \in Issued, c \in Users :
          ( /\ nftOwners[t] \notin {NoOne, tickets[t].owner}
            /\ ~tickets[t].isCancelled
            /\ c \in {nftOwners[t], tickets[t].owner}
            /\ cancelBooking(c, t) )
          => /\ tickets'[t].owner = tickets[t].owner
             /\ c = tickets[t].owner
                => /\ last' = Call("cancelBooking", "NotOwner")
                   /\ UNCHANGED chainVars
             /\ ( /\ c = nftOwners[t]
                  /\ transferOk(Ledger, refundAmount(tickets[t].eventId)) )
                => LET amt == refundAmount(tickets[t].eventId) IN
                   /\ last' = Call("cancelBooking", "ok")
                   /\ balances'[c] = balances[c] + amt
                   /\ balances'[Ledger] = balances[Ledger] - amt
                   /\ tickets'[t].isCancelled
                   /\ nftOwners'[t] = NoOne
      ]_vars

\* a buyer has just cancelled a ticket that another account bought and was
\* paid its refund: the buyer holds more than it started with
C17_Witness ==
    /\ last = Call("cancelBooking", "ok")
    /\ \E b \in Buyers, t \in Issued :
          /\ balances[b] > InitBalance
          /\ tickets[t].isCancelled
          /\ tickets[t].owner # b

\* the event both buyers are booking
RaceEvent == client[CHOOSE b \in Buyers : TRUE].eventId

\* C18: two buyers with sufficient balance each approve the price and then
\* book the same event with one seat left; once all four steps are done, in
\* whatever order, exactly one booking succeeded and the other failed with
\* SoldOut, the loser's balance is what it was and its allowance is the
\* price, the winner paid the price and holds the asset, soldTickets equals
\* totalTickets, and exactly one ticket id was issued.
C18_OneSeatTwoBuyers ==
    (\A b \in Buyers : client[b].pc = "done")
    => /\ \E w \in Buyers :
             /\ client[w].result = "ok"
             /\ balances[w] = InitBalance - events[RaceEvent].price
             /\ nftOwners[1] = w
             /\ \A l \in Buyers \ {w} :
                   /\ client[l].result = "SoldOut"
                   /\ balances[l] = InitBalance
                   /\ allowances[l] = events[RaceEvent].price
       /\ events[RaceEvent].soldTickets = events[RaceEvent].totalTickets
       /\ ticketIdCounter = 1
       /\ balances[Ledger] = events[RaceEvent].price

\* both flows are over and u1, who paid nothing, lost the seat to u2
C18_Witness ==
    /\ \A b \in Buyers : client[b].pc = "done"
    /\ client["u1"].result = "SoldOut"
    /\ client["u2"].result = "ok"
    /\ allowances["u1"] = MaxPrice

\* C19: ticketIdCounter is the sum of soldTickets over the existing events;
\* for each existing event the number of ticket records of that event,
\* cancelled or not, is its soldTickets; every issued ticket record refers to
\* an existing event.
C19_CountersAgree ==
    /\ ticketIdCounter
          = SumOver(Existing, [e \in Existing |-> events[e].soldTickets])
    /\ \A e \in Existing :
          Cardinality({t \in Issued : tickets[t].eventId = e})
             = events[e].soldTickets
    /\ \A t \in Issued : tickets[t].eventId \in Existing

\* each of two events has sold its seat, and one of the two tickets is
\* cancelled
C19_Witness ==
    /\ ticketIdCounter = 2
    /\ events[1].soldTickets = 1
    /\ events[2].soldTickets = 1
    /\ \E t \in Issued : tickets[t].isCancelled

\* C20: for every issued ticket id the cancelled flag is false iff its asset
\* has a holder, and no id outside 1..ticketIdCounter has an asset; so the
\* tickets the client lists for a buyer are exactly those of its purchases
\* that are not cancelled.
C20_FlagAgreesWithRegistry ==
    /\ \A t \in Issued : ~tickets[t].isCancelled <=> nftOwners[t] # NoOne
    /\ \A t \in TicketIds \ Issued : nftOwners[t] = NoOne
    /\ \A a \in Buyers :
          fetchData(a)
             = SelectSeq(getUserTickets(a), LAMBDA t : ~tickets[t].isCancelled)

\* a buyer's list shows one of its two purchases: the other was cancelled by
\* the account it had been transferred to
C20_Witness ==
    \E a \in Buyers :
       /\ Len(getUserTickets(a)) = 2
       /\ Len(fetchData(a)) = 1
       /\ \E b \in Buyers \ {a} : balances[b] > InitBalance

\* C21: while withdrawFunds has never succeeded, custody is at least the sum
\* of the prices of the tickets that are not cancelled; so until the
\* administrator withdraws, cancelBooking by the holder of a live ticket
\* never fails for lack of funds: it succeeds and pays the refund.
C21_FundedUntilWithdrawal ==
    /\ [](withdrawn = 0
          => balances[Ledger]
                >= SumOver({t \in Issued : ~tickets[t].isCancelled},
                           [t \in Issued |-> PriceOf(t)]))
    /\ [][last'.op = "cancelBooking" =>
          \A t \in Issued, c \in Users :
             ( /\ withdrawn = 0
               /\ nftOwners[t] = c
               /\ ~tickets[t].isCancelled
               /\ cancelBooking(c, t) )
             => /\ transferOk(Ledger, refundAmount(tickets[t].eventId))
                /\ last' = Call("cancelBooking", "ok")
                /\ balances'[c]
                      = balances[c] + refundAmount(tickets[t].eventId)
                /\ tickets'[t].isCancelled
         ]_vars

\* nothing was ever withdrawn, one ticket has just been cancelled for half
\* its price and another is live
C21_Witness ==
    /\ withdrawn = 0
    /\ last = Call("cancelBooking", "ok")
    /\ \E t \in Issued : ~tickets[t].isCancelled
    /\ \E t \in Issued : tickets[t].isCancelled /\ refunded < PriceOf(t)
====
